---- MODULE Spec2Model ----
(***************************************************************************)
(* A model of fs.c: an inode file system on a block device.               *)
(*                                                                         *)
(* The device is a function from block ids to blocks.  A block is the     *)
(* union fs_block of the source; the three regions of the layout are kept *)
(* as three fields of the disk: block 0 (super), the inode-table blocks   *)
(* (iblock) and the byte cells of every block (cells).  One cell stands   *)
(* for one char of a data block and, in an indirect block, for one int of *)
(* the pointer array (cells 0..POINTERS_PER_BLOCK-1).                      *)
(*                                                                         *)
(* The layout constants are scaled down so that the state space is        *)
(* finite and small: DISK_BLOCK_SIZE 4096 -> 3, INODES_PER_BLOCK 128 -> 3,*)
(* POINTERS_PER_INODE 5 -> 2, POINTERS_PER_BLOCK 1024 -> 2.               *)
(*                                                                         *)
(* A copy that leaves the one-block buffer, or an array index outside its *)
(* array, is undefined behaviour: the model records it in ub and follows  *)
(* the program no further (no operation is enabled once ub is set).  The  *)
(* bytes of a buffer that was never initialised are a nondeterministic    *)
(* choice.                                                                 *)
(***************************************************************************)
EXTENDS Integers, Sequences, FiniteSets, TLC

\* ---------------------------------------------------------------- constants

\* 0xf0f03410 stored in the int field magic (32 bits, two's complement)
FS_MAGIC == -252693488
INODES_PER_BLOCK == 3
POINTERS_PER_INODE == 2
POINTERS_PER_BLOCK == 2
DISK_BLOCK_SIZE == 3

\* ------------------------------------------------------------------- bounds

\* Spec: a small device, every length and offset up to a bound, caller
\* data and buffer garbage that can be told apart
NBlocks == 5
MaxLen == 2
MaxOffset == 2
MaxCalls == 6
DataVals == {1, 2}
Garbage == {0, 9}
\* SpecCap: a device with room for a file of the maximum size and one block
\* more, transfers of whole regions, zero bytes throughout
NBlocksCap == 8
MaxCallsCap == 8
\* SpecDev: devices of 2..MaxBlocksDev blocks (one to three inode blocks),
\* transfers of one whole block
MaxBlocksDev == 21
MaxCallsDev == 6
\* the devices of up to DeepBlocksDev blocks are followed for more calls
DeepBlocksDev == 5
MaxCallsDeep == 8

\* ------------------------------------------------------------------ helpers

Min(a, b) == IF a < b THEN a ELSE b
Max(a, b) == IF a > b THEN a ELSE b

\* C's integer division and remainder (truncation toward zero), b > 0
CDiv(a, b) == IF a >= 0 THEN a \div b ELSE -((-a) \div b)
CMod(a, b) == IF a >= 0 THEN a % b ELSE -((-a) % b)

\* (int) ceil((double) a / b), b > 0
Ceil(a, b) == IF a >= 0 THEN (a + b - 1) \div b ELSE -((-a) \div b)

\* ------------------------------------------------------------------- layout

ZeroInode ==
    [isvalid |-> 0, size |-> 0,
     direct |-> [p \in 0..(POINTERS_PER_INODE - 1) |-> 0], indirect |-> 0]

ZeroSuper == [magic |-> 0, nblocks |-> 0, ninodeblocks |-> 0, ninodes |-> 0]

ZeroCells == [c \in 0..(DISK_BLOCK_SIZE - 1) |-> 0]

\* the pointers view of a block: its first POINTERS_PER_BLOCK cells
Pointers(blk) == [p \in 0..(POINTERS_PER_BLOCK - 1) |-> blk[p]]

\* a device of n blocks that holds only zero bytes
BlankDisk(n) ==
    [super |-> ZeroSuper,
     iblock |-> [b \in 1..Ceil(n, 10) |->
                    [k \in 0..(INODES_PER_BLOCK - 1) |-> ZeroInode]],
     cells |-> [b \in 0..(n - 1) |-> ZeroCells]]

VARIABLES
    disk,           \* the block device
    is_mounted,     \* the global flag
    free_block_bm,  \* the global bitmap, TRUE = free
    ret,            \* the call that has just returned: operation, arguments,
                    \* result; op = "none" once the caller has taken it
    hist,           \* per inumber since its create: what the writes asked for
    ub,             \* the last call ran into undefined behaviour
    budget,         \* calls that change the state still to be explored
    scenario        \* the calls made so far, while they are the first calls
                    \* of the walk-through ScenarioCalls on a blank device

vars == <<disk, is_mounted, free_block_bm, ret, hist, ub, budget, scenario>>

disk_size == Cardinality(DOMAIN disk.cells)

\* ------------------------------------------------------------ inode manager

inode_block(inumber) == 1 + CDiv(inumber, INODES_PER_BLOCK)
inode_slot(inumber) == CMod(inumber, INODES_PER_BLOCK)

inode_load(d, inumber) == d.iblock[inode_block(inumber)][inode_slot(inumber)]

inode_save(d, inumber, inode) ==
    [d EXCEPT !.iblock[inode_block(inumber)][inode_slot(inumber)] = inode]

\* a slip: the range is checked, the valid flag is not
is_valid_inumber_rangeOnly(d, inumber) ==
    inumber > 0 /\ inumber < d.super.ninodes

is_valid_inumber(d, inumber) ==
    IF inumber > 0 /\ inumber < d.super.ninodes
    THEN inode_load(d, inumber).isvalid # 0
    ELSE FALSE

\* ------------------------------------------------------- walking an inode

\* The loop shared by mount, delete and read: entries i.. of a pointer
\* array, as long as size > 0; a non-zero entry is taken and costs one block.
RECURSIVE WalkPtrs(_, _, _, _, _)
WalkPtrs(ptrs, n, i, size, acc) ==
    IF i >= n \/ size <= 0 THEN [blocks |-> acc, size |-> size]
    ELSE IF ptrs[i] # 0
         THEN WalkPtrs(ptrs, n, i + 1, size - DISK_BLOCK_SIZE, acc \cup {ptrs[i]})
         ELSE WalkPtrs(ptrs, n, i + 1, size, acc)

\* What the walk of one inode reaches: the direct blocks, whether the
\* indirect block is entered, the blocks its entries name, the size left.
Walk(d, inode) ==
    LET dw == WalkPtrs(inode.direct, POINTERS_PER_INODE, 0, inode.size, {})
        enter == dw.size > 0 /\ inode.indirect # 0
        inrange == inode.indirect \in DOMAIN d.cells
        iw == IF enter /\ inrange
              THEN WalkPtrs(Pointers(d.cells[inode.indirect]),
                            POINTERS_PER_BLOCK, 0, dw.size, {})
              ELSE [blocks |-> {}, size |-> dw.size]
    IN [direct |-> dw.blocks, enter |-> enter, data |-> iw.blocks,
        size |-> iw.size, oob |-> enter /\ ~inrange]

\* all inumbers the inode table of d has room for
Inumbers(d) == 0..(Cardinality(DOMAIN d.iblock) * INODES_PER_BLOCK - 1)

\* ------------------------------------------------------------------- format

\* a slip: the quotient is rounded down
NewSuper_floor(n) ==
    [magic |-> FS_MAGIC, nblocks |-> n, ninodeblocks |-> n \div 10,
     ninodes |-> (n \div 10) * INODES_PER_BLOCK]

NewSuper(n) ==
    [magic |-> FS_MAGIC, nblocks |-> n, ninodeblocks |-> Ceil(n, 10),
     ninodes |-> Ceil(n, 10) * INODES_PER_BLOCK]

\* lines 112-118: an already formatted device gets its inode blocks zeroed
EraseInodeBlocks(d) ==
    [d EXCEPT !.iblock =
        [b \in DOMAIN d.iblock |->
            IF b - 1 < d.super.ninodeblocks
            THEN [k \in 0..(INODES_PER_BLOCK - 1) |-> ZeroInode]
            ELSE d.iblock[b]]]

\* a slip: the mounted flag is not looked at
fs_format_ignoresMount(d, mounted) ==
    LET erased == IF d.super.magic = FS_MAGIC THEN EraseInodeBlocks(d) ELSE d
    IN [disk |-> [erased EXCEPT !.super = NewSuper(disk_size)], val |-> 1]

fs_format(d, mounted) ==
    IF mounted THEN [disk |-> d, val |-> 0]
    ELSE LET erased == IF d.super.magic = FS_MAGIC THEN EraseInodeBlocks(d) ELSE d
         IN [disk |-> [erased EXCEPT !.super = NewSuper(disk_size)], val |-> 1]

\* -------------------------------------------------------------------- mount

\* the blocks the mount scan marks busy for the valid inodes of d
ScanBusy(d) ==
    UNION { LET w == Walk(d, inode_load(d, i))
            IN w.direct \cup w.data \cup
               (IF w.enter THEN {inode_load(d, i).indirect} ELSE {})
          : i \in { j \in Inumbers(d) :
                      /\ inode_block(j) - 1 < d.super.ninodeblocks
                      /\ inode_load(d, j).isvalid # 0 } }

fs_mount(d, mounted, bm) ==
    IF d.super.magic # FS_MAGIC
    THEN [mounted |-> mounted, bm |-> bm, val |-> 0, ub |-> FALSE]
    ELSE LET busy == {0} \cup (1..d.super.ninodeblocks) \cup ScanBusy(d)
         IN [mounted |-> TRUE,
             bm |-> [b \in 0..(d.super.nblocks - 1) |-> b \notin busy],
             val |-> 1,
             \* a bitmap index outside the bitmap
             ub |-> ~(busy \subseteq 0..(d.super.nblocks - 1))]

\* ------------------------------------------------------------------- create

\* a slip: the scan starts at inumber 0
FirstInvalid_fromZero(d) ==
    LET open == { i \in 0..(d.super.ninodes - 1) : inode_load(d, i).isvalid = 0 }
    IN IF open = {} THEN 0 ELSE CHOOSE i \in open : \A j \in open : i <= j

\* the first inumber from 1 upward whose slot is not valid, 0 if none
FirstInvalid(d) ==
    LET open == { i \in 1..(d.super.ninodes - 1) : inode_load(d, i).isvalid = 0 }
    IN IF open = {} THEN 0 ELSE CHOOSE i \in open : \A j \in open : i <= j

\* lines 268-274: valid, size 0, the direct pointers cleared; inode.indirect
\* is not assigned and keeps what the slot held
NewInode(old) ==
    [old EXCEPT !.isvalid = 1, !.size = 0,
                !.direct = [p \in 0..(POINTERS_PER_INODE - 1) |-> 0]]

fs_create(d, mounted) ==
    IF ~mounted THEN [disk |-> d, val |-> 0]
    ELSE LET i == FirstInvalid(d)
         IN IF i = 0 THEN [disk |-> d, val |-> 0]
            ELSE [disk |-> inode_save(d, i, NewInode(inode_load(d, i))), val |-> i]

\* ------------------------------------------------------------------- delete

\* a slip: the inode is made invalid, its blocks are not given back
fs_delete_keepsBusy(d, mounted, bm, inumber) ==
    IF ~mounted \/ ~is_valid_inumber(d, inumber)
    THEN [disk |-> d, bm |-> bm, val |-> 0, ub |-> FALSE]
    ELSE [disk |-> inode_save(d, inumber,
                     [inode_load(d, inumber) EXCEPT !.isvalid = 0]),
          bm |-> bm, val |-> 1, ub |-> FALSE]

fs_delete(d, mounted, bm, inumber) ==
    IF ~mounted \/ ~is_valid_inumber(d, inumber)
    THEN [disk |-> d, bm |-> bm, val |-> 0, ub |-> FALSE]
    ELSE LET inode == inode_load(d, inumber)
             w == Walk(d, inode)
             freed == w.direct \cup w.data \cup
                      (IF w.enter THEN {inode.indirect} ELSE {})
         IN [disk |-> inode_save(d, inumber,
                        [inode EXCEPT !.isvalid = 0, !.size = w.size]),
             bm |-> [b \in DOMAIN bm |-> IF b \in freed THEN TRUE ELSE bm[b]],
             val |-> 1,
             ub |-> w.oob \/ ~(freed \subseteq DOMAIN bm)]

\* ------------------------------------------------------------------ getsize

fs_getsize(d, mounted, inumber) ==
    IF ~mounted \/ ~is_valid_inumber(d, inumber) THEN -1
    ELSE inode_load(d, inumber).size

\* --------------------------------------------------------------------- read

\* lines 372-397: the blocks of the file, visited in ascending block id.
\* L: length, size, offset_ptr, n_block, read_counter, out (the bytes
\* copied, in order), done (the loop was left by break), ub, copy (a memcpy
\* left the one-block buffer)
RECURSIVE ReadLoop(_, _, _, _, _)
ReadLoop(d, marked, offset, b, L) ==
    IF b >= d.super.nblocks \/ L.done \/ L.ub THEN L
    ELSE IF L.length <= 0 \/ L.size <= 0 THEN L
    ELSE IF b \notin marked THEN ReadLoop(d, marked, offset, b + 1, L)
    ELSE IF L.offset_ptr # L.n_block
    THEN ReadLoop(d, marked, offset, b + 1,
            [L EXCEPT !.size = @ - DISK_BLOCK_SIZE, !.n_block = @ + 1])
    ELSE LET block_offset ==
                 CMod(offset - L.offset_ptr * DISK_BLOCK_SIZE, DISK_BLOCK_SIZE)
             last == L.size < DISK_BLOCK_SIZE
             fits == block_offset + L.length < DISK_BLOCK_SIZE
             n == IF last THEN L.size
                  ELSE IF fits THEN L.length
                  ELSE DISK_BLOCK_SIZE - block_offset
             oob == block_offset < 0 \/ block_offset + n > DISK_BLOCK_SIZE
             got == IF oob THEN <<>>
                    ELSE [k \in 1..n |-> d.cells[b][block_offset + k - 1]]
             copied == [L EXCEPT !.read_counter = @ + n, !.out = @ \o got,
                                 !.ub = oob, !.copy = oob]
         IN IF last \/ fits THEN [copied EXCEPT !.done = TRUE]
            ELSE ReadLoop(d, marked, offset, b + 1,
                    [copied EXCEPT !.length = @ - n, !.offset_ptr = @ + 1,
                                   !.size = @ - DISK_BLOCK_SIZE, !.n_block = @ + 1])

fs_read(d, mounted, inumber, length, offset) ==
    IF ~mounted \/ ~is_valid_inumber(d, inumber)
    THEN [val |-> 0, bytes |-> <<>>, ub |-> FALSE, copy |-> FALSE]
    ELSE IF length <= 0 \/ offset < 0
    THEN [val |-> 0, bytes |-> <<>>, ub |-> FALSE, copy |-> FALSE]
    ELSE LET inode == inode_load(d, inumber)
             w == Walk(d, inode)
             marked == w.direct \cup w.data
             index_oob == w.oob \/ ~(marked \subseteq 0..(d.super.nblocks - 1))
             L == ReadLoop(d, marked, offset, 0,
                    [length |-> length, size |-> inode.size,
                     offset_ptr |-> CDiv(offset, DISK_BLOCK_SIZE),
                     n_block |-> 0, read_counter |-> 0, out |-> <<>>,
                     done |-> FALSE, ub |-> FALSE, copy |-> FALSE])
         IN IF offset >= inode.size
            THEN [val |-> 0, bytes |-> <<>>, ub |-> FALSE, copy |-> FALSE]
            ELSE IF index_oob
            THEN [val |-> 0, bytes |-> <<>>, ub |-> TRUE, copy |-> FALSE]
            ELSE [val |-> L.read_counter, bytes |-> L.out, ub |-> L.ub,
                  copy |-> L.copy]

\* -------------------------------------------------------------------- write

\* memcpy(block.data + block_offset, data + write_counter, n), inside the buffer
Memcpy(block, block_offset, data, write_counter, n) ==
    [c \in DOMAIN block |->
        IF c >= block_offset /\ c < block_offset + n
        THEN data[write_counter + (c - block_offset)]
        ELSE block[c]]

\* the bytes one block takes: lines 434-444 and 481-491
Chunk(block_offset, length) ==
    IF block_offset + length < DISK_BLOCK_SIZE THEN length
    ELSE DISK_BLOCK_SIZE - block_offset

\* lines 426-450, the overwrite phase.  L: d (the disk), size, length,
\* offset_ptr, write_counter, block (the local buffer), returned, ub, copy
\* (a memcpy left the one-block buffer)
\* indirect_block: the local copy read at line 420 when loaded, never re-read
RECURSIVE Overwrite(_, _, _, _, _, _)
Overwrite(inode, loaded, indirect_block, offset, data, L) ==
    IF L.size - offset <= 0 \/ L.returned \/ L.ub THEN L
    ELSE LET slot == L.offset_ptr - POINTERS_PER_INODE
             \* indirect_block is read only when it was loaded (line 420)
             \* and the slot is one of its POINTERS_PER_BLOCK entries
             index_oob == /\ L.offset_ptr >= POINTERS_PER_INODE
                          /\ (~loaded \/ slot >= POINTERS_PER_BLOCK)
             block_num == IF L.offset_ptr < POINTERS_PER_INODE
                          THEN inode.direct[L.offset_ptr]
                          ELSE indirect_block[slot]
             block_offset ==
                 CMod(offset - L.offset_ptr * DISK_BLOCK_SIZE, DISK_BLOCK_SIZE)
             n == Chunk(block_offset, L.length)
             copy_oob == block_offset < 0 \/ block_offset + n > DISK_BLOCK_SIZE
         IN IF index_oob THEN [L EXCEPT !.ub = TRUE]
            ELSE IF copy_oob THEN [L EXCEPT !.ub = TRUE, !.copy = TRUE]
            ELSE IF block_num \notin DOMAIN L.d.cells THEN [L EXCEPT !.ub = TRUE]
            ELSE LET buf == Memcpy(L.block, block_offset, data, L.write_counter, n)
                 IN Overwrite(inode, loaded, indirect_block, offset, data,
                      [L EXCEPT !.block = buf,
                                !.d = [L.d EXCEPT !.cells[block_num] = buf],
                                !.write_counter = @ + n,
                                !.size = @ - n,
                                !.length = @ - n,
                                !.offset_ptr = @ + 1,
                                !.returned = (L.length - n <= 0)])

\* lines 493-501: where the id of a new data block is stored
StorePointer(L, b) ==
    IF L.free_direct > 0
    THEN [L EXCEPT
            !.inode.direct[CMod(POINTERS_PER_INODE - L.free_direct,
                                POINTERS_PER_INODE)] = b,
            !.free_direct = @ - 1]
    ELSE IF L.has_indirect /\ L.free_indirect > 0
    THEN [L EXCEPT
            !.d.cells[L.inode.indirect][CMod(POINTERS_PER_BLOCK - L.free_indirect,
                                             POINTERS_PER_BLOCK)] = b,
            !.free_indirect = @ - 1]
    ELSE L

\* lines 468-505, the extension phase.  L: d, bm, inode, length, offset_ptr,
\* write_counter, block, free_direct, free_indirect, has_indirect,
\* claimed (the blocks taken as indirect block), ub, copy
RECURSIVE Extend(_, _, _, _, _)
Extend(inumber, offset, data, b, L) ==
    IF b >= L.d.super.nblocks \/ L.ub THEN L
    ELSE IF L.length <= 0 THEN L
    ELSE IF b \notin DOMAIN L.bm THEN [L EXCEPT !.ub = TRUE]
    ELSE IF ~L.bm[b] THEN Extend(inumber, offset, data, b + 1, L)
    ELSE LET taken == [L EXCEPT !.bm[b] = FALSE]
         IN IF L.free_direct = 0 /\ ~L.has_indirect
            THEN LET ind == [taken.inode EXCEPT !.indirect = b]
                 IN Extend(inumber, offset, data, b + 1,
                      [taken EXCEPT !.inode = ind,
                                    !.d = inode_save(taken.d, inumber, ind),
                                    !.has_indirect = TRUE,
                                    !.claimed = @ \cup {b}])
            ELSE LET block_offset ==
                         CMod(offset - L.offset_ptr * DISK_BLOCK_SIZE,
                              DISK_BLOCK_SIZE)
                     n == Chunk(block_offset, L.length)
                     copy_oob == block_offset < 0
                                 \/ block_offset + n > DISK_BLOCK_SIZE
                     buf == Memcpy(L.block, block_offset, data,
                                   L.write_counter, n)
                     grown == [taken EXCEPT !.block = buf,
                                            !.write_counter = @ + n,
                                            !.inode.size = @ + n,
                                            !.length = @ - n]
                     stored == StorePointer(grown, b)
                     saved == inode_save(stored.d, inumber, stored.inode)
                 IN IF copy_oob THEN [taken EXCEPT !.ub = TRUE, !.copy = TRUE]
                    ELSE IF b \notin DOMAIN L.d.cells
                              \/ (L.has_indirect /\ L.free_direct = 0
                                  /\ L.inode.indirect \notin DOMAIN L.d.cells)
                    THEN [taken EXCEPT !.ub = TRUE]
                    ELSE Extend(inumber, offset, data, b + 1,
                           [stored EXCEPT !.d = [saved EXCEPT !.cells[b] = buf],
                                          !.offset_ptr = @ + 1])

\* data: the caller's bytes, data[0..length-1]; garbage: what the local
\* buffer `block` holds before the first memcpy
fs_write(d, mounted, bm, inumber, data, length, offset, garbage) ==
    IF ~mounted \/ ~is_valid_inumber(d, inumber)
    THEN [disk |-> d, bm |-> bm, val |-> 0, ub |-> FALSE, claimed |-> {},
          copy |-> FALSE]
    ELSE IF length <= 0 \/ offset < 0
    THEN [disk |-> d, bm |-> bm, val |-> 0, ub |-> FALSE, claimed |-> {},
          copy |-> FALSE]
    ELSE LET inode == inode_load(d, inumber)
             pointers_used == Ceil(inode.size, DISK_BLOCK_SIZE)
             loaded == pointers_used > POINTERS_PER_INODE
             indirect_block == IF loaded /\ inode.indirect \in DOMAIN d.cells
                               THEN Pointers(d.cells[inode.indirect])
                               ELSE Pointers(ZeroCells)
             O == Overwrite(inode, loaded, indirect_block, offset, data,
                    [d |-> d, size |-> inode.size, length |-> length,
                     offset_ptr |-> CDiv(offset, DISK_BLOCK_SIZE),
                     write_counter |-> 0, block |-> garbage,
                     returned |-> FALSE, ub |-> FALSE, copy |-> FALSE])
             E == Extend(inumber, offset, data, O.d.super.ninodeblocks,
                    [d |-> O.d, bm |-> bm, inode |-> inode,
                     length |-> O.length, offset_ptr |-> O.offset_ptr,
                     write_counter |-> O.write_counter, block |-> O.block,
                     free_direct |-> IF pointers_used <= POINTERS_PER_INODE
                                     THEN POINTERS_PER_INODE - pointers_used
                                     ELSE 0,
                     free_indirect |-> IF pointers_used > POINTERS_PER_INODE
                                       THEN POINTERS_PER_BLOCK
                                            - (pointers_used - POINTERS_PER_INODE)
                                       ELSE POINTERS_PER_BLOCK,
                     has_indirect |-> loaded,
                     claimed |-> {}, ub |-> FALSE, copy |-> FALSE])
         IN IF loaded /\ inode.indirect \notin DOMAIN d.cells
            THEN [disk |-> d, bm |-> bm, val |-> 0, ub |-> TRUE, claimed |-> {},
                  copy |-> FALSE]
            ELSE IF O.returned \/ O.ub
            THEN [disk |-> O.d, bm |-> bm, val |-> O.write_counter,
                  ub |-> O.ub, claimed |-> {}, copy |-> O.copy]
            ELSE [disk |-> E.d, bm |-> E.bm, val |-> E.write_counter,
                  ub |-> E.ub, claimed |-> E.claimed, copy |-> E.copy]

\* ------------------------------------------------------------------ actions

Ret(op, inumber, length, offset, fill, val, bytes) ==
    [op |-> op, inumber |-> inumber, length |-> length, offset |-> offset,
     fill |-> fill, val |-> val, bytes |-> bytes]

NoRet == Ret("none", 0, 0, 0, 0, 0, <<>>)

NoHist == [maxEnd |-> 0, allFull |-> TRUE, claimed |-> {}]

\* The walk-through of a fresh device: format, mount, create, write one
\* block at offset 0 of inumber 1, read it back, getsize, delete, create,
\* getsize.
Call(op, inumber, length, offset) ==
    [op |-> op, inumber |-> inumber, length |-> length, offset |-> offset]

ScenarioCalls ==
    << Call("format", 0, 0, 0), Call("mount", 0, 0, 0), Call("create", 0, 0, 0),
       Call("write", 1, DISK_BLOCK_SIZE, 0), Call("read", 1, DISK_BLOCK_SIZE, 0),
       Call("getsize", 1, 0, 0), Call("delete", 1, 0, 0),
       Call("create", 0, 0, 0), Call("getsize", 1, 0, 0) >>

NotFollowed == [on |-> FALSE, calls |-> <<>>]
Followed == [on |-> TRUE, calls |-> <<>>]

\* the call that returned r is the next call of the walk-through, or the
\* walk-through is left for good
Follow(s, r) ==
    IF /\ s.on
       /\ Len(s.calls) < Len(ScenarioCalls)
       /\ Call(r.op, r.inumber, r.length, r.offset)
            = ScenarioCalls[Len(s.calls) + 1]
    THEN [s EXCEPT !.calls = Append(@, r)]
    ELSE NotFollowed

\* The arguments the callers pass.  Inumbers: -1 and 0 are never valid,
\* INODES_PER_BLOCK is the first one past a one-block inode table.
InumberArgs == -1..INODES_PER_BLOCK
GoodInumberArgs == 1..(INODES_PER_BLOCK - 1)
\* <<inumber, length, offset>> for the <<length, offset>> pairs in transfers,
\* and one call for each inumber
ArgsOver(transfers) ==
    { <<i, t[1], t[2]>> : i \in GoodInumberArgs, t \in transfers }
    \cup { <<i, 1, 0>> : i \in InumberArgs }
\* Spec: every pair in range, the non-positive lengths, the negative offset
CallArgs ==
    ArgsOver(((1..MaxLen) \X (0..MaxOffset)) \cup {<<0, 0>>, <<-1, 0>>, <<1, -1>>})
\* SpecCap: one byte, up to the end of the direct pointers, one byte past it,
\* one byte more than the maximum file size; at offset 0 or at the end of the
\* direct pointers
FullSize == (POINTERS_PER_INODE + POINTERS_PER_BLOCK) * DISK_BLOCK_SIZE
DirectSize == POINTERS_PER_INODE * DISK_BLOCK_SIZE
CapArgs ==
    { <<i, t[1], t[2]>> : i \in GoodInumberArgs,
        t \in {1, DirectSize, DirectSize + 1, FullSize + 1} \X {0, DirectSize} }

\* the caller's buffer of a write: length bytes, all different; fill 0 is a
\* buffer of zero bytes
DataOf(fill, length) ==
    [k \in 0..(length - 1) |-> IF fill = 0 THEN 0 ELSE 10 * fill + k]

\* the local buffer before its first memcpy
GarbageBlock(g) == [c \in 0..(DISK_BLOCK_SIZE - 1) |-> g]

InitOn(n, calls) ==
    /\ disk = BlankDisk(n)
    /\ is_mounted = FALSE
    /\ free_block_bm = <<>>
    /\ ret = NoRet
    /\ hist = [i \in Inumbers(BlankDisk(n)) |-> NoHist]
    /\ ub = FALSE
    /\ budget = calls
    /\ scenario = NotFollowed

Init == InitOn(NBlocks, MaxCalls)

InitCap == \E n \in {NBlocksCap - 1, NBlocksCap} : InitOn(n, MaxCallsCap)

\* the caller is between two calls
Idle == ~ub /\ ret.op = "none"

\* a call that changes the device, the flag or the bitmap uses up one call
\* of the budget, and is explored only while the budget lasts
Spend(changed) ==
    /\ changed => budget > 0
    /\ budget' = IF changed THEN budget - 1 ELSE budget

Format ==
    /\ Idle
    /\ LET r == fs_format(disk, is_mounted)
       IN /\ disk' = r.disk
          /\ ret' = Ret("format", 0, 0, 0, 0, r.val, <<>>)
          /\ Spend(r.disk # disk)
    /\ scenario' = Follow(scenario, ret')
    /\ UNCHANGED <<is_mounted, free_block_bm, hist, ub>>

Mount ==
    /\ Idle
    /\ LET r == fs_mount(disk, is_mounted, free_block_bm)
       IN /\ is_mounted' = r.mounted
          /\ free_block_bm' = r.bm
          /\ ub' = r.ub
          /\ ret' = Ret("mount", 0, 0, 0, 0, r.val, <<>>)
          /\ Spend(r.mounted # is_mounted \/ r.bm # free_block_bm)
    /\ scenario' = Follow(scenario, ret')
    /\ UNCHANGED <<disk, hist>>

Create ==
    /\ Idle
    /\ LET r == fs_create(disk, is_mounted)
       IN /\ disk' = r.disk
          /\ ret' = Ret("create", 0, 0, 0, 0, r.val, <<>>)
          /\ hist' = IF r.val # 0 THEN [hist EXCEPT ![r.val] = NoHist] ELSE hist
          /\ Spend(r.disk # disk)
    /\ scenario' = Follow(scenario, ret')
    /\ UNCHANGED <<is_mounted, free_block_bm, ub>>

Delete ==
    /\ Idle
    /\ \E inumber \in InumberArgs :
         LET r == fs_delete(disk, is_mounted, free_block_bm, inumber)
         IN /\ disk' = r.disk
            /\ free_block_bm' = r.bm
            /\ ub' = r.ub
            /\ ret' = Ret("delete", inumber, 0, 0, 0, r.val, <<>>)
            /\ Spend(r.disk # disk \/ r.bm # free_block_bm)
    /\ scenario' = Follow(scenario, ret')
    /\ UNCHANGED <<is_mounted, hist>>

\* delete of the inumbers create can return
DeleteGood ==
    /\ Idle
    /\ \E inumber \in GoodInumberArgs :
         LET r == fs_delete(disk, is_mounted, free_block_bm, inumber)
         IN /\ disk' = r.disk
            /\ free_block_bm' = r.bm
            /\ ub' = r.ub
            /\ ret' = Ret("delete", inumber, 0, 0, 0, r.val, <<>>)
            /\ Spend(r.disk # disk \/ r.bm # free_block_bm)
    /\ scenario' = Follow(scenario, ret')
    /\ UNCHANGED <<is_mounted, hist>>

Getsize ==
    /\ Idle
    /\ \E inumber \in InumberArgs :
         ret' = Ret("getsize", inumber, 0, 0, 0,
                    fs_getsize(disk, is_mounted, inumber), <<>>)
    /\ scenario' = Follow(scenario, ret')
    /\ UNCHANGED <<disk, is_mounted, free_block_bm, hist, ub, budget>>

ReadWith(args) ==
    /\ Idle
    /\ \E a \in args :
         LET r == fs_read(disk, is_mounted, a[1], a[2], a[3])
         IN /\ ret' = Ret("read", a[1], a[2], a[3], 0, r.val, r.bytes)
            /\ ub' = r.ub
    /\ scenario' = Follow(scenario, ret')
    /\ UNCHANGED <<disk, is_mounted, free_block_bm, hist, budget>>

\* what a write call adds to the history of its inumber
Noted(h, length, offset, r) ==
    [maxEnd |-> IF r.val = length THEN Max(h.maxEnd, offset + length)
                ELSE h.maxEnd,
     allFull |-> h.allFull /\ r.val = length,
     claimed |-> h.claimed \cup r.claimed]

WriteWith(args, fills, garbage) ==
    /\ Idle
    /\ \E a \in args, fill \in fills, g \in garbage :
         LET inumber == a[1]
             length == a[2]
             offset == a[3]
             r == fs_write(disk, is_mounted, free_block_bm, inumber,
                           DataOf(fill, length), length, offset, GarbageBlock(g))
             counted == /\ is_mounted /\ is_valid_inumber(disk, inumber)
                        /\ length > 0 /\ offset >= 0
         IN /\ disk' = r.disk
            /\ free_block_bm' = r.bm
            /\ ub' = r.ub
            /\ ret' = Ret("write", inumber, length, offset, fill, r.val, <<>>)
            /\ hist' = IF counted
                       THEN [hist EXCEPT ![inumber] = Noted(@, length, offset, r)]
                       ELSE hist
            /\ Spend(r.disk # disk \/ r.bm # free_block_bm)
    /\ scenario' = Follow(scenario, ret')
    /\ UNCHANGED is_mounted

Read == ReadWith(CallArgs)

Write == WriteWith(CallArgs, DataVals, Garbage)

WriteCap == WriteWith(CapArgs, {0}, {0})

\* the caller takes the result and goes on to its next call
Return ==
    /\ ~ub
    /\ ret.op # "none"
    /\ ret' = NoRet
    /\ UNCHANGED <<disk, is_mounted, free_block_bm, hist, ub, budget, scenario>>

Next ==
    \/ Format
    \/ Mount
    \/ Create
    \/ Delete
    \/ Getsize
    \/ Read
    \/ Write
    \/ Return

Spec == Init /\ [][Next]_vars

NextCap ==
    \/ Format
    \/ Mount
    \/ Create
    \/ DeleteGood
    \/ WriteCap
    \/ Return

SpecCap == InitCap /\ [][NextCap]_vars

\* SpecDev: devices of every size from the smallest with an inode block up
\* to MaxBlocksDev, blank or left with a valid inode by an earlier use
\* without a superblock; whole blocks written and read at block boundaries.
UsedDisk(n) == inode_save(BlankDisk(n), 1, [ZeroInode EXCEPT !.isvalid = 1])

BlockArgs ==
    { <<i, DISK_BLOCK_SIZE, o>> : i \in GoodInumberArgs, o \in {0, DISK_BLOCK_SIZE} }

InitDev ==
    \E n \in 2..MaxBlocksDev, used \in BOOLEAN :
        /\ disk = IF used THEN UsedDisk(n) ELSE BlankDisk(n)
        /\ is_mounted = FALSE
        /\ free_block_bm = <<>>
        /\ ret = NoRet
        /\ hist = [i \in Inumbers(BlankDisk(n)) |-> NoHist]
        /\ ub = FALSE
        /\ budget = IF n <= DeepBlocksDev THEN MaxCallsDeep ELSE MaxCallsDev
        /\ scenario = IF used THEN NotFollowed ELSE Followed

GetsizeGood ==
    /\ Idle
    /\ \E inumber \in GoodInumberArgs :
         ret' = Ret("getsize", inumber, 0, 0, 0,
                    fs_getsize(disk, is_mounted, inumber), <<>>)
    /\ scenario' = Follow(scenario, ret')
    /\ UNCHANGED <<disk, is_mounted, free_block_bm, hist, ub, budget>>

ReadBlock == ReadWith(BlockArgs)

WriteBlock == WriteWith(BlockArgs, DataVals, Garbage)

NextDev ==
    \/ Format
    \/ Mount
    \/ Create
    \/ DeleteGood
    \/ GetsizeGood
    \/ ReadBlock
    \/ WriteBlock
    \/ Return

SpecDev == InitDev /\ [][NextDev]_vars

\* ------------------------------------------------------------- observations

\* every block id a pointer of the inode names: its non-zero direct
\* pointers, its indirect pointer, the non-zero entries of its indirect block
IndirectEntries(d, inode) ==
    IF inode.indirect # 0 /\ inode.indirect \in DOMAIN d.cells
    THEN { Pointers(d.cells[inode.indirect])[p] :
             p \in 0..(POINTERS_PER_BLOCK - 1) } \ {0}
    ELSE {}

DirectRefs(inode) ==
    { inode.direct[p] : p \in 0..(POINTERS_PER_INODE - 1) } \ {0}

Refs(d, inode) ==
    DirectRefs(inode) \cup ({inode.indirect} \ {0}) \cup IndirectEntries(d, inode)

\* the number of non-zero pointers to data blocks
PointerCount(d, inode) ==
    Cardinality({ p \in 0..(POINTERS_PER_INODE - 1) : inode.direct[p] # 0 })
    + (IF inode.indirect # 0 /\ inode.indirect \in DOMAIN d.cells
       THEN Cardinality({ p \in 0..(POINTERS_PER_BLOCK - 1) :
                            Pointers(d.cells[inode.indirect])[p] # 0 })
       ELSE 0)

\* the inumbers 1..total_inodes-1 of the mounted volume, and the valid ones
Slots == 1..(disk.super.ninodes - 1)
ValidSlots == { i \in Slots : inode_load(disk, i).isvalid # 0 }

\* the caller's buffer of the write that has just returned, as a sequence
Written == [k \in 1..ret.length |-> DataOf(ret.fill, ret.length)[k - 1]]

\* the cells of block 0 and of the inode-table blocks are never written as
\* data or pointers: the three fields of the disk do not overlap
LayoutKept ==
    \A b \in 0..Cardinality(DOMAIN disk.iblock) : disk.cells[b] = ZeroCells

\* ------------------------------------------------------------------- claims

\* C1: on a mounted volume, a write to a valid inumber that returned its
\* full length is read back by an immediately following read of the same
\* length at the same offset: the read returns length and the bytes written.
C1_RoundTrip ==
    (/\ ~ub /\ ret.op = "write" /\ is_mounted
     /\ ret.inumber \in ValidSlots
     /\ ret.length > 0 /\ ret.offset >= 0 /\ ret.val = ret.length)
    => LET r == fs_read(disk, is_mounted, ret.inumber, ret.length, ret.offset)
       IN ~r.ub /\ r.val = ret.length /\ r.bytes = Written

\* C2: after writes to a valid inumber none of which was short, getsize
\* returns the maximum of offset + length over those writes.
C2_SizeIsMaxEnd ==
    (~ub /\ is_mounted)
    => \A i \in ValidSlots :
         hist[i].allFull => fs_getsize(disk, is_mounted, i) = hist[i].maxEnd

\* C3: a read of length > 0 at 0 <= offset < size of a valid inumber returns
\* min(length, size - offset), and copies that many bytes.
C3_ReadCount ==
    (/\ ~ub /\ ret.op = "read" /\ is_mounted
     /\ ret.inumber \in ValidSlots
     /\ ret.length > 0 /\ ret.offset >= 0
     /\ ret.offset < inode_load(disk, ret.inumber).size)
    => /\ ret.val = Min(ret.length,
                        inode_load(disk, ret.inumber).size - ret.offset)
       /\ Len(ret.bytes) = ret.val

\* C4: every valid inode holds exactly ceil(size / DISK_BLOCK_SIZE) non-zero
\* block pointers (direct pointers plus entries of its indirect block).
C4_PointersMatchSize ==
    (~ub /\ is_mounted)
    => \A i \in ValidSlots :
         PointerCount(disk, inode_load(disk, i))
           = Ceil(inode_load(disk, i).size, DISK_BLOCK_SIZE)

\* the preconditions of the call c, evaluated before it: not mounted; an
\* inumber outside 1..total_inodes-1 or not valid; a length <= 0 or an
\* offset < 0
C5_Fails(c) ==
    \/ ~is_mounted
    \/ /\ c.op \in {"delete", "getsize", "read", "write"}
       /\ \/ c.inumber \notin Slots
          \/ inode_load(disk, c.inumber).isvalid = 0
    \/ /\ c.op \in {"read", "write"}
       /\ (c.length <= 0 \/ c.offset < 0)

\* C5: a call whose precondition fails (not mounted; for delete, getsize,
\* read, write an inumber that is not in 1..total_inodes-1 or not valid; for
\* read, write a length <= 0 or an offset < 0) returns its failure value (0,
\* -1 for getsize) and changes no disk block and not the free-space tracker.
C5_FailureHasNoEffect ==
    [][(/\ ret.op = "none"
        /\ ret'.op \in {"create", "delete", "getsize", "read", "write"}
        /\ C5_Fails(ret'))
       => (/\ disk' = disk
           /\ free_block_bm' = free_block_bm
           /\ is_mounted' = is_mounted
           /\ ~ub'
           /\ ret'.val = IF ret'.op = "getsize" THEN -1 ELSE 0)]_vars

\* a write to a valid inumber of the mounted volume, refused for its
\* negative offset alone
C5_Witness ==
    /\ is_mounted /\ ret.op = "write" /\ ret.inumber \in ValidSlots
    /\ ret.length > 0 /\ ret.offset < 0 /\ ret.val = 0

\* C6: on a mounted volume create returns the smallest inumber of
\* 1..total_inodes-1 whose slot is not valid and makes that slot valid; it
\* returns 0, and changes nothing, exactly when every such slot is valid.
C6_CreateFirstFree ==
    [][(ret.op = "none" /\ ret'.op = "create" /\ is_mounted)
       => LET open == Slots \ ValidSlots
          IN /\ (open = {}) <=> (ret'.val = 0)
             /\ open = {} => disk' = disk
             /\ open # {} =>
                  /\ ret'.val \in open
                  /\ \A j \in open : ret'.val <= j
                  /\ inode_load(disk', ret'.val).isvalid # 0
                  /\ \A j \in Slots \ {ret'.val} :
                       inode_load(disk', j) = inode_load(disk, j)]_vars

\* the create after total_inodes - 1 successful ones: the table is full
C6_Witness ==
    /\ is_mounted /\ ret.op = "create" /\ ret.val = 0
    /\ Slots # {} /\ ValidSlots = Slots

\* C7: the inode create has just returned (in particular one recreated
\* after a delete) has size 0, all direct pointers 0 and indirect pointer 0.
C7_CreatedInodeCleared ==
    (~ub /\ ret.op = "create" /\ ret.val # 0)
    => LET inode == inode_load(disk, ret.val)
       IN /\ inode.size = 0
          /\ \A p \in 0..(POINTERS_PER_INODE - 1) : inode.direct[p] = 0
          /\ inode.indirect = 0

\* C8: after a successful delete, every block the deleted inode references
\* (non-zero direct pointers, its indirect block, the non-zero entries of
\* the indirect block) is free in the tracker.
C8_DeleteFreesAll ==
    (~ub /\ ret.op = "delete" /\ ret.val = 1)
    => \A b \in Refs(disk, inode_load(disk, ret.inumber)) :
         b \in DOMAIN free_block_bm /\ free_block_bm[b]

\* C9: from its create on, a file has at most one block claimed as its
\* indirect block held busy in the tracker, and no data pointer of the file
\* names a block claimed as indirect block.
C9_OneIndirectBlock ==
    (~ub /\ is_mounted)
    => \A i \in ValidSlots :
         /\ Cardinality({ b \in hist[i].claimed : ~free_block_bm[b] }) <= 1
         /\ LET inode == inode_load(disk, i)
            IN hist[i].claimed
                 \cap (DirectRefs(inode) \cup IndirectEntries(disk, inode)) = {}

\* C10: no inode's size exceeds the maximum file size
\* (POINTERS_PER_INODE + POINTERS_PER_BLOCK) * DISK_BLOCK_SIZE.
C10_SizeBounded ==
    (~ub /\ is_mounted)
    => \A i \in ValidSlots : inode_load(disk, i).size <= FullSize

\* C11: format called while not mounted returns 1 and leaves a superblock
\* with the magic value, total_blocks = the device's block count,
\* inode_blocks = ceil(block count / 10) (the least k with 10 * k >= block
\* count) and total_inodes = inode_blocks * INODES_PER_BLOCK, for every
\* device size; when block 0 did not carry the magic before, no block other
\* than block 0 is written.
C11_FormatWritesSuperblock ==
    [][(ret.op = "none" /\ ret'.op = "format" /\ ~is_mounted)
       => /\ ret'.val = 1
          /\ disk'.super.magic = FS_MAGIC
          /\ disk'.super.nblocks = disk_size
          /\ \E k \in 1..disk_size :
               /\ 10 * k >= disk_size /\ 10 * (k - 1) < disk_size
               /\ disk'.super.ninodeblocks = k
               /\ disk'.super.ninodes = k * INODES_PER_BLOCK
          /\ disk.super.magic # FS_MAGIC
               => (disk'.iblock = disk.iblock /\ disk'.cells = disk.cells)
          /\ is_mounted' = is_mounted /\ free_block_bm' = free_block_bm]_vars

\* the format of a device of more than twenty blocks that carried no magic
\* and a valid inode: three inode blocks, the inode still there
C11_Witness ==
    /\ ret.op = "format" /\ ret.val = 1 /\ ~is_mounted
    /\ disk_size > 20 /\ disk.super.ninodeblocks = 3
    /\ inode_load(disk, 1).isvalid # 0

\* C12: once a mount has succeeded the volume stays mounted and the
\* superblock never changes again: every later format returns 0 and writes
\* nothing, and no create, write, delete, read, getsize or mount writes
\* block 0 (neither its superblock fields nor any of its bytes), so magic
\* and total_blocks keep their formatted values.
C12_SuperblockKept ==
    [][is_mounted
       => /\ is_mounted'
          /\ disk'.super = disk.super
          /\ disk'.cells[0] = disk.cells[0]
          /\ disk'.super.magic = FS_MAGIC
          /\ disk'.super.nblocks = disk_size
          /\ (ret.op = "none" /\ ret'.op = "format")
               => (/\ ret'.val = 0
                   /\ disk' = disk
                   /\ free_block_bm' = free_block_bm)]_vars

\* a format refused on a mounted volume that holds a file with data
C12_Witness ==
    /\ is_mounted /\ ret.op = "format" /\ ret.val = 0
    /\ \E i \in ValidSlots : inode_load(disk, i).size > 0

\* C13: on a blank device of any size with at least one data block, the
\* calls format, mount, create, write(1, DISK_BLOCK_SIZE, 0, data),
\* read(1, DISK_BLOCK_SIZE, 0), getsize(1), delete(1), create, getsize(1)
\* return 1, 1, 1, DISK_BLOCK_SIZE, DISK_BLOCK_SIZE with the bytes of data,
\* DISK_BLOCK_SIZE, 1, 1, 0; after the write exactly one data block is busy
\* and it is named by the first direct pointer of inode 1 and by no other
\* pointer; after the delete every data block is free again.
C13_Scenario ==
    LET c == scenario.calls
        k == Len(c)
        meta == 0..disk.super.ninodeblocks
        datablocks == (0..(disk_size - 1)) \ meta
        inode == inode_load(disk, 1)
    IN (scenario.on /\ k >= 1 /\ datablocks # {})
       => /\ ~ub
          /\ c[1].val = 1
          /\ k >= 2 => c[2].val = 1
          /\ k >= 3 => c[3].val = 1
          /\ k >= 4 => c[4].val = DISK_BLOCK_SIZE
          /\ k >= 5 => /\ c[5].val = DISK_BLOCK_SIZE
                       /\ c[5].bytes = [j \in 1..DISK_BLOCK_SIZE |->
                              DataOf(c[4].fill, DISK_BLOCK_SIZE)[j - 1]]
          /\ k >= 6 => c[6].val = DISK_BLOCK_SIZE
          /\ k >= 7 => c[7].val = 1
          /\ k >= 8 => c[8].val = 1
          /\ k >= 9 => c[9].val = 0
          /\ k \in 4..6
               => /\ inode.direct[0] \in datablocks
                  /\ \A p \in 1..(POINTERS_PER_INODE - 1) : inode.direct[p] = 0
                  /\ inode.indirect = 0
                  /\ \A b \in datablocks :
                       free_block_bm[b] <=> (b # inode.direct[0])
          /\ k >= 7 => \A b \in datablocks : free_block_bm[b]

\* the whole walk-through made on a device with two inode blocks
C13_Witness ==
    /\ scenario.on /\ Len(scenario.calls) = Len(ScenarioCalls)
    /\ disk.super.ninodeblocks = 2
    /\ ret.op = "getsize" /\ ret.val = 0

\* the blocks the extension phase of a write may take: free in the tracker,
\* from block inode_blocks upward
FreeForWrite ==
    { b \in DOMAIN free_block_bm :
        b >= disk.super.ninodeblocks /\ free_block_bm[b] }

\* C14: write fails under the preconditions of read: not mounted, invalid
\* inumber, length <= 0, offset < 0, and also an offset >= the file's
\* current size; it then returns 0 and changes neither the disk nor the
\* tracker.
C14_WriteRefusedAtEnd ==
    [][(/\ ret.op = "none" /\ ret'.op = "write"
        /\ \/ C5_Fails(ret')
           \/ ret'.offset >= inode_load(disk, ret'.inumber).size)
       => (/\ ret'.val = 0
           /\ disk' = disk
           /\ free_block_bm' = free_block_bm)]_vars

\* C14 as amended: write returns 0 and changes neither the disk nor the
\* tracker when not mounted, for an invalid inumber, a length <= 0 or an
\* offset < 0; an offset >= the file's current size is not among its
\* preconditions: such a write goes on to the extension phase and takes the
\* first free block of the tracker, if there is one.
C14_WriteRefusedOnly ==
    [][(ret.op = "none" /\ ret'.op = "write")
       => /\ C5_Fails(ret')
               => (/\ ret'.val = 0
                   /\ disk' = disk
                   /\ free_block_bm' = free_block_bm
                   /\ ~ub')
          /\ (/\ ~C5_Fails(ret')
              /\ ret'.offset >= inode_load(disk, ret'.inumber).size
              /\ FreeForWrite # {})
               => \E b \in FreeForWrite :
                    /\ \A o \in FreeForWrite : b <= o
                    /\ ~free_block_bm'[b]]_vars

\* a write that starts past the end of an empty file and is carried out
C14_Witness ==
    /\ ~ub /\ is_mounted /\ ret.op = "write" /\ ret.inumber \in ValidSlots
    /\ ret.offset > 0 /\ ret.val = ret.length
    /\ inode_load(disk, ret.inumber).size = ret.val

\* C15: read resolves logical blocks in pointer order: for every valid
\* inode and every direct pointer k whose logical block lies within the
\* file's size, a read of one block at offset k * DISK_BLOCK_SIZE returns
\* the bytes of the block that pointer k names, whatever the order of the
\* block ids the pointers name.
C15_ReadInPointerOrder ==
    (~ub /\ is_mounted)
    => \A i \in ValidSlots : \A k \in 0..(POINTERS_PER_INODE - 1) :
         LET inode == inode_load(disk, i)
             want == Min(DISK_BLOCK_SIZE, inode.size - k * DISK_BLOCK_SIZE)
             r == fs_read(disk, is_mounted, i, DISK_BLOCK_SIZE,
                          k * DISK_BLOCK_SIZE)
         IN (k * DISK_BLOCK_SIZE < inode.size /\ inode.direct[k] # 0)
            => /\ ~r.ub
               /\ Len(r.bytes) >= want
               /\ \A j \in 1..want :
                    r.bytes[j] = disk.cells[inode.direct[k]][j - 1]

\* the block the k-th pointer of an inode names: direct[k], then the
\* entries of the indirect block; 0 where there is no such pointer
KthPointer(d, inode, k) ==
    IF k < POINTERS_PER_INODE THEN inode.direct[k]
    ELSE IF /\ k < POINTERS_PER_INODE + POINTERS_PER_BLOCK
            /\ inode.indirect # 0 /\ inode.indirect \in DOMAIN d.cells
    THEN Pointers(d.cells[inode.indirect])[k - POINTERS_PER_INODE]
    ELSE 0

\* the positions p of a file whose block is named by a pointer
Positions(d, inode) ==
    { p \in 0..(inode.size - 1) :
        KthPointer(d, inode, p \div DISK_BLOCK_SIZE) \in DOMAIN d.cells \ {0} }

\* the byte of the file at position p
ByteAt(d, inode, p) ==
    d.cells[KthPointer(d, inode, p \div DISK_BLOCK_SIZE)][p % DISK_BLOCK_SIZE]

\* C16: a write of length bytes at offset that lies within the current
\* size of the file changes only the addressed bytes: every byte of the
\* file outside [offset, offset + length) has the same value after the
\* write as before it, and the inode (size and pointers) and the tracker
\* are unchanged.
C16_OverwriteKeepsRest ==
    [][(/\ ret.op = "none" /\ ret'.op = "write" /\ ~C5_Fails(ret') /\ ~ub'
        /\ ret'.offset + ret'.length <= inode_load(disk, ret'.inumber).size)
       => LET inode == inode_load(disk, ret'.inumber)
          IN /\ inode_load(disk', ret'.inumber) = inode
             /\ free_block_bm' = free_block_bm
             /\ \A p \in Positions(disk, inode) :
                  (p < ret'.offset \/ p >= ret'.offset + ret'.length)
                  => ByteAt(disk', inode, p) = ByteAt(disk, inode, p)]_vars

\* the blocks a valid inode references: its non-zero direct pointers and,
\* for a file larger than POINTERS_PER_INODE blocks, its indirect block and
\* the non-zero entries of that block
InodeRefs(d, inode) ==
    DirectRefs(inode)
    \cup (IF inode.size > DirectSize
          THEN ({inode.indirect} \ {0}) \cup IndirectEntries(d, inode)
          ELSE {})

\* block 0, the inode-table blocks, the blocks the valid inodes reference
InUse ==
    (0..disk.super.ninodeblocks)
    \cup UNION { InodeRefs(disk, inode_load(disk, i)) : i \in ValidSlots }

\* C17: after every successful mount, the first or a repeated one, the
\* tracker marks busy exactly block 0, the inode-table blocks and the blocks
\* referenced by valid inodes, and marks every other block free; no block
\* named by a non-zero direct pointer of a valid inode is free.
C17_MountTrackerExact ==
    (~ub /\ ret.op = "mount" /\ ret.val = 1)
    => /\ DOMAIN free_block_bm = 0..(disk_size - 1)
       /\ \A b \in DOMAIN free_block_bm : ~free_block_bm[b] <=> b \in InUse

\* C18: in every state after the mount of a freshly formatted blank volume
\* the tracker agrees with the inodes on disk: a block is busy if and only
\* if it is block 0, an inode-table block, or referenced by a valid inode
\* (no referenced block is free, no busy block is unreferenced).
C18_TrackerAgrees ==
    (~ub /\ is_mounted)
    => \A b \in DOMAIN free_block_bm :
         ~free_block_bm[b]
         <=> \/ b \in 0..disk.super.ninodeblocks
             \/ \E i \in ValidSlots : b \in Refs(disk, inode_load(disk, i))

\* the blocks named as data blocks by an inode: its non-zero direct
\* pointers and the non-zero entries of its indirect block
DataRefs(d, inode) == DirectRefs(inode) \cup IndirectEntries(d, inode)

\* C19: no double allocation: no block is named as data block by two
\* different valid inodes, no block is both the indirect block of a valid
\* inode and a data block of a valid inode, and no pointer of a valid inode
\* names block 0 or an inode-table block.
C19_NoDoubleAllocation ==
    (~ub /\ is_mounted)
    => /\ \A i, j \in ValidSlots :
            i # j => DataRefs(disk, inode_load(disk, i))
                       \cap DataRefs(disk, inode_load(disk, j)) = {}
       /\ \A i, j \in ValidSlots :
            inode_load(disk, i).indirect
              \notin DataRefs(disk, inode_load(disk, j))
       /\ \A i \in ValidSlots :
            Refs(disk, inode_load(disk, i))
              \cap (0..disk.super.ninodeblocks) = {}

\* C20: in every read and every write, for every block touched (also the
\* second and later blocks of a transfer that starts at an offset that is
\* not a multiple of DISK_BLOCK_SIZE), the offset within the block is in
\* 0..DISK_BLOCK_SIZE-1 and offset plus bytes copied is at most
\* DISK_BLOCK_SIZE: no memcpy reaches outside the one-block buffer.
C20_CopiesInBuffer ==
    [][(ret.op = "none" /\ ret'.op \in {"read", "write"})
       => /\ ret'.op = "read"
               => ~fs_read(disk, is_mounted, ret'.inumber, ret'.length,
                           ret'.offset).copy
          /\ ret'.op = "write"
               => ~fs_write(disk, is_mounted, free_block_bm, ret'.inumber,
                            DataOf(ret'.fill, ret'.length), ret'.length,
                            ret'.offset, GarbageBlock(0)).copy]_vars

====
